---- MODULE Spec2Model ----
(***************************************************************************)
(* Model of exception_handling/calculator_app.py: class Calculator with    *)
(* calculate, perform_operation and divide, and DivisionByZeroError.       *)
(*                                                                         *)
(* Python values are records [t, neg, num, den]:                           *)
(*   t = "None"  : the None object                                         *)
(*   t = "int"   : the int  (neg ? -num : num), den = 1                    *)
(*   t = "float" : the double nearest to the rational (neg ? -1 : 1) *     *)
(*                 num/den, num/den in lowest terms; neg is the sign bit,  *)
(*                 so -0.0 is [neg |-> TRUE, num |-> 0, den |-> 1].        *)
(* Operands are Python ints, as in tests/test_calculator_app.py.           *)
(***************************************************************************)
EXTENDS Integers, Sequences, FiniteSets, TLC

\* precision, history: the Calculator's fields.  stdout: the lines printed.
\* last: the latest call, its arguments, its outcome and the history it found.
\* ncalls: the calls made.  precision0: the precision the Calculator was
\* constructed with.  okRecords: the records of the calculate calls that
\* returned a number, in call order.  calcDiag: the lines printed during
\* calculate calls.  calcDivZero: the calculate calls with divide and b = 0.
VARIABLES precision, history, stdout, last, ncalls, precision0, okRecords,
          calcDiag, calcDivZero

vars == <<precision, history, stdout, last, ncalls, precision0, okRecords,
          calcDiag, calcDivZero>>

\* ------------------------------------------------------------------ bounds
\* calls made on one Calculator in a session
MaxCalls == 2
\* operands of a session's calls
MaxSeqOperand == 1
\* operands of a single call, besides those of the tests
MaxDividend == 3
MaxDivisor == 4

\* precision: int = attrs.field(default=2)
DefaultPrecision == 2

\* the numbers of a rounded result's decimal digits: none up to the default
Precisions == 0..DefaultPrecision

\* the four operations of perform_operation, and a label it does not know
Operations == {"add", "subtract", "multiply", "divide", "modulo"}

\* operands of the tests (test_calculate, test_perform_operation, test_divide)
TestDividends == {0 - 10, 0, 10}
TestDivisors == {0 - 5, 0, 3, 5}

\* operands of a single call; a divisor of 20 makes quotients such as 1/20 and
\* 3/20, which lie halfway between two one-digit decimals and are no doubles
Dividends == TestDividends \cup ((0 - 1)..MaxDividend)
Divisors == TestDivisors \cup ((0 - 1)..MaxDivisor) \cup {20}

\* operands of the calls of a session
SeqDividends == {0 - 1} \cup (1..MaxSeqOperand)
SeqDivisors == 0..MaxSeqOperand

\* ------------------------------------------------------------------ values
Abs(i) == IF i < 0 THEN 0 - i ELSE i

RECURSIVE Gcd(_, _)
Gcd(m, n) == IF n = 0 THEN m ELSE Gcd(n, m % n)

RECURSIVE Pow10(_)
Pow10(k) == IF k = 0 THEN 1 ELSE 10 * Pow10(k - 1)

None == [t |-> "None", neg |-> FALSE, num |-> 0, den |-> 1]

PyInt(i) == [t |-> "int", neg |-> i < 0, num |-> Abs(i), den |-> 1]

IntOf(x) == IF x.neg THEN 0 - x.num ELSE x.num

\* the double nearest to (neg ? -1 : 1) * n/d, for n >= 0 and d > 0
PyFloat(neg, n, d) ==
    LET g == Gcd(n, d)
    IN  [t |-> "float", neg |-> neg, num |-> n \div g, den |-> d \div g]

\* int / int: the sign bit of the quotient is the exclusive or of the signs,
\* also for a zero dividend (0 / -5 is -0.0)
TrueDiv(a, b) == PyFloat((a < 0) # (b < 0), Abs(a), Abs(b))

\* ------------------------------------------------------------------ float
\* num/den scaled by a power of two into [1, 2): the significand of the double
RECURSIVE Normalize(_, _)
Normalize(n, d) ==
    IF n >= 2 * d THEN Normalize(n, 2 * d)
    ELSE IF n < d THEN Normalize(2 * n, d)
    ELSE <<n, d>>

\* binary long division of r/d (r < d): the remainder after k more bits of the
\* quotient is r * 2^k mod d
Rem13(r, d) == (r * 8192) % d

Rem51(r, d) == (Rem13(Rem13(Rem13(r, d), d), d) * 4096) % d

\* sign of (double nearest to n/d) - n/d, for n >= 0, d > 0: the quotient is
\* rounded to the 53 significant bits of a double (the leading one and 52
\* more), ties to even
ErrSign(n, d) ==
    IF n = 0 THEN 0
    ELSE LET nd  == Normalize(n, d)
             r51 == Rem51(nd[1] - nd[2], nd[2])
             bit == IF 2 * r51 >= nd[2] THEN 1 ELSE 0
             r   == (2 * r51) % nd[2]
         IN  IF r = 0 THEN 0
             ELSE IF 2 * r < nd[2] THEN 0 - 1
             ELSE IF 2 * r > nd[2] THEN 1
             ELSE IF bit = 0 THEN 0 - 1 ELSE 1

\* round half to even of p/q (p >= 0, q > 0) to an integer; a tie of the
\* rational is decided by the double that stands for it: err is the sign of
\* (double - rational)
RoundQuot(p, q, err) ==
    LET f == p \div q
        r == p % q
    IN  IF 2 * r < q THEN f
        ELSE IF 2 * r > q THEN f + 1
        ELSE IF err > 0 THEN f + 1
        ELSE IF err < 0 THEN f
        ELSE IF f % 2 = 0 THEN f ELSE f + 1

\* ------------------------------------------------------------------ outcomes
Return(v) == [raised |-> FALSE, exc |-> "", msg |-> "", val |-> v]

Raise(e, m) == [raised |-> TRUE, exc |-> e, msg |-> m, val |-> None]

\* builtin round(x, ndigits): None has no __round__ (TypeError); an int stays
\* an int (unchanged for ndigits >= 0); a float is rounded correctly, half to
\* even on its exact value, and keeps its sign bit
PyRound(x, ndigits) ==
    IF x.t = "None"
    THEN Raise("TypeError", "type NoneType doesn't define __round__ method")
    ELSE IF x.t = "int"
    THEN IF ndigits >= 0 THEN Return(x)
         ELSE LET p == Pow10(0 - ndigits)
                  m == RoundQuot(x.num, p, 0) * p
              IN  Return(PyInt(IF x.neg THEN 0 - m ELSE m))
    ELSE LET err == ErrSign(x.num, x.den)
             m   == IF ndigits >= 0
                    THEN RoundQuot(x.num * Pow10(ndigits), x.den, err)
                    ELSE RoundQuot(x.num, x.den * Pow10(0 - ndigits), err)
         IN  Return(IF ndigits >= 0
                    THEN PyFloat(x.neg, m, Pow10(ndigits))
                    ELSE PyFloat(x.neg, m * Pow10(0 - ndigits), 1))

\* ------------------------------------------------------------------ str()
\* the least k with d dividing 10^k (d is a product of twos and fives)
RECURSIVE DecimalPlaces(_, _)
DecimalPlaces(d, k) == IF Pow10(k) % d = 0 THEN k ELSE DecimalPlaces(d, k + 1)

\* i written with k digits, zero padded on the left
RECURSIVE Digits(_, _)
Digits(i, k) == IF k = 0 THEN "" ELSE Digits(i \div 10, k - 1) \o ToString(i % 10)

\* d without its factors p
RECURSIVE Strip(_, _)
Strip(d, p) == IF d % p = 0 THEN Strip(d \div p, p) ELSE d

\* the first k digits of the decimal expansion of r/d, r < d
RECURSIVE FracDigits(_, _, _)
FracDigits(r, d, k) ==
    IF k = 0 THEN ""
    ELSE ToString((10 * r) \div d) \o FracDigits((10 * r) % d, d, k - 1)

\* str() of a value, as an f-string renders it: an int in decimal, a float by
\* its shortest repr (always with a fractional part: 2.0, 3.33, -0.0).  A
\* rounded result is a short decimal; a float that is none (an unrounded 10 / 3)
\* is rendered by its first 16 fractional digits
Str(x) ==
    IF x.t = "None" THEN "None"
    ELSE IF x.t = "int" THEN ToString(IntOf(x))
    ELSE IF Strip(Strip(x.den, 2), 5) # 1
    THEN (IF x.neg THEN "-" ELSE "") \o ToString(x.num \div x.den) \o "."
         \o FracDigits(x.num % x.den, x.den, 16)
    ELSE LET k == DecimalPlaces(x.den, 0)
             m == x.num * (Pow10(k) \div x.den)
         IN  (IF x.neg THEN "-" ELSE "") \o ToString(m \div Pow10(k)) \o "."
             \o (IF k = 0 THEN "0" ELSE Digits(m % Pow10(k), k))

\* ------------------------------------------------------------------ Calculator
\* divide with floor division (a // b) in place of true division
divide_FloorDiv(a, b) ==
    IF b = 0
    THEN Raise("DivisionByZeroError",
               "Cannot divide " \o Str(PyInt(a)) \o " by zero")
    ELSE Return(PyInt(a \div b))

\* def divide(self, a, b)
divide(a, b) ==
    IF b = 0
    THEN Raise("DivisionByZeroError",
               "Cannot divide " \o Str(PyInt(a)) \o " by zero")
    ELSE Return(TrueDiv(a, b))

\* perform_operation without its except clause: the error leaves it
perform_operation_NoCatch(operation, a, b) ==
    IF operation = "add"
    THEN [out |-> Return(PyInt(a + b)), printed |-> <<>>, divides |-> <<>>]
    ELSE IF operation = "subtract"
    THEN [out |-> Return(PyInt(a - b)), printed |-> <<>>, divides |-> <<>>]
    ELSE IF operation = "multiply"
    THEN [out |-> Return(PyInt(a * b)), printed |-> <<>>, divides |-> <<>>]
    ELSE IF operation = "divide"
    THEN [out |-> divide(a, b), printed |-> <<>>, divides |-> <<<<a, b>>>>]
    ELSE [out |-> Return(None), printed |-> <<>>, divides |-> <<>>]

\* perform_operation with an except clause that prints nothing
perform_operation_Silent(operation, a, b) ==
    LET r == perform_operation_NoCatch(operation, a, b)
    IN  IF r.out.raised THEN [r EXCEPT !.out = Return(None)] ELSE r

\* perform_operation with a closing else in place of elif operation == "divide"
perform_operation_ElseDivide(operation, a, b) ==
    IF operation \in {"add", "subtract", "multiply"}
    THEN perform_operation_NoCatch(operation, a, b)
    ELSE LET d == divide(a, b)
         IN  IF d.raised
             THEN [out |-> Return(None),
                   printed |-> <<"Error: Attempted to divide " \o Str(PyInt(a))
                                 \o " by zero: " \o d.msg>>,
                   divides |-> <<<<a, b>>>>]
             ELSE [out |-> d, printed |-> <<>>, divides |-> <<<<a, b>>>>]

\* def perform_operation(self, operation, a, b): the outcome, the lines it
\* prints and the calls of self.divide it makes
perform_operation(operation, a, b) ==
    IF operation = "add"
    THEN [out |-> Return(PyInt(a + b)), printed |-> <<>>, divides |-> <<>>]
    ELSE IF operation = "subtract"
    THEN [out |-> Return(PyInt(a - b)), printed |-> <<>>, divides |-> <<>>]
    ELSE IF operation = "multiply"
    THEN [out |-> Return(PyInt(a * b)), printed |-> <<>>, divides |-> <<>>]
    ELSE IF operation = "divide"
    THEN LET d == divide(a, b)
         IN  IF d.raised /\ d.exc = "DivisionByZeroError"
             THEN [out |-> Return(None),
                   printed |-> <<"Error: Attempted to divide " \o Str(PyInt(a))
                                 \o " by zero: " \o d.msg>>,
                   divides |-> <<<<a, b>>>>]
             ELSE [out |-> d, printed |-> <<>>, divides |-> <<<<a, b>>>>]
    ELSE [out |-> Return(None), printed |-> <<>>, divides |-> <<>>]

\* the history record calculate formats
Record(a, operation, b, rounded_result) ==
    Str(PyInt(a)) \o " " \o operation \o " " \o Str(PyInt(b)) \o " = "
    \o Str(rounded_result)

\* what a variant of calculate leaves: its outcome, precision and history,
\* with the lines printed and the calls made by perform_operation
calculate_Variant(prec, hist, operation, a, b, out, newprec, newhist) ==
    LET po == perform_operation(operation, a, b)
    IN  [out |-> out, precision |-> newprec, history |-> newhist,
         printed |-> po.printed, performs |-> <<<<operation, a, b>>>>,
         divides |-> po.divides]

\* calculate appending the record before it rounds the result
calculate_AppendFirst(prec, hist, operation, a, b) ==
    LET po == perform_operation(operation, a, b)
        r  == PyRound(po.out.val, prec)
    IN  calculate_Variant(prec, hist, operation, a, b,
            IF r.raised THEN r ELSE Return(r.val), prec,
            Append(hist, Record(a, operation, b,
                                IF r.raised THEN po.out.val ELSE r.val)))

\* calculate recording the result of perform_operation, not the rounded one
calculate_HistoryUnrounded(prec, hist, operation, a, b) ==
    LET po == perform_operation(operation, a, b)
        r  == PyRound(po.out.val, prec)
    IN  calculate_Variant(prec, hist, operation, a, b,
            IF r.raised THEN r ELSE Return(r.val), prec,
            IF r.raised THEN hist
            ELSE Append(hist, Record(a, operation, b, po.out.val)))

\* calculate with history.insert(0, ...) in place of history.append(...)
calculate_Prepend(prec, hist, operation, a, b) ==
    LET po == perform_operation(operation, a, b)
        r  == PyRound(po.out.val, prec)
    IN  calculate_Variant(prec, hist, operation, a, b,
            IF r.raised THEN r ELSE Return(r.val), prec,
            IF r.raised THEN hist
            ELSE <<Record(a, operation, b, r.val)>> \o hist)

\* calculate keeping one more digit after each result it records
calculate_ClobbersPrecision(prec, hist, operation, a, b) ==
    LET po == perform_operation(operation, a, b)
        r  == PyRound(po.out.val, prec)
    IN  calculate_Variant(prec, hist, operation, a, b,
            IF r.raised THEN r ELSE Return(r.val),
            IF r.raised THEN prec ELSE prec + 1,
            IF r.raised THEN hist
            ELSE Append(hist, Record(a, operation, b, r.val)))

\* calculate with a rounding step that passes None through
calculate_RoundAbsorbs(prec, hist, operation, a, b) ==
    LET po == perform_operation(operation, a, b)
        r  == IF po.out.val.t = "None" THEN Return(None)
              ELSE PyRound(po.out.val, prec)
    IN  calculate_Variant(prec, hist, operation, a, b, Return(r.val), prec,
            Append(hist, Record(a, operation, b, r.val)))

\* def calculate(self, operation, a, b), on a Calculator with the given
\* precision and history: the outcome, the precision and history it leaves,
\* the lines printed and the calls of self.perform_operation and self.divide it makes
calculate(prec, hist, operation, a, b) ==
    LET po == perform_operation(operation, a, b)
        base == [out |-> po.out, precision |-> prec, history |-> hist,
                 printed |-> po.printed,
                 performs |-> <<<<operation, a, b>>>>, divides |-> po.divides]
    IN  IF po.out.raised THEN base
        ELSE LET rounded_result == PyRound(po.out.val, prec)
             IN  IF rounded_result.raised
                 THEN [base EXCEPT !.out = rounded_result]
                 ELSE [base EXCEPT
                         !.out = Return(rounded_result.val),
                         !.history = Append(hist,
                             Record(a, operation, b, rounded_result.val))]

\* ------------------------------------------------------------------ state machine
NoCall == [kind |-> "none", op |-> "", a |-> 0, b |-> 0, out |-> Return(None),
           printed |-> <<>>, performs |-> <<>>, divides |-> <<>>,
           history0 |-> <<>>]

\* Calculator(precision=p): history: list = attrs.field(factory=list)
Init ==
    /\ precision \in Precisions
    /\ history = <<>>
    /\ stdout = <<>>
    /\ last = NoCall
    /\ ncalls = 0
    /\ precision0 = precision
    /\ okRecords = <<>>
    /\ calcDiag = 0
    /\ calcDivZero = 0

\* the histories of a Calculator of precision p before the call looked at:
\* none, one or two records of earlier successful calls
PriorHistories(p) ==
    LET h1 == calculate(p, <<>>, "add", 10, 5).history
        h2 == calculate(p, h1, "divide", 10, 3).history
    IN  {<<>>, h1, h2}

\* a Calculator of any precision with a history of earlier calls
InitCall ==
    /\ precision \in Precisions
    /\ history \in PriorHistories(precision)
    /\ stdout = <<>>
    /\ last = NoCall
    /\ ncalls = 0
    /\ precision0 = precision
    /\ okRecords = history
    /\ calcDiag = 0
    /\ calcDivZero = 0

\* a caller runs calc.calculate(op, a, b); an error raised out of it is the
\* caller's to handle, and the Calculator lives on
Calculate(op, a, b) ==
    /\ LET r == calculate(precision, history, op, a, b)
       IN  /\ precision' = r.precision
           /\ history' = r.history
           /\ stdout' = stdout \o r.printed
           /\ last' = [kind |-> "calculate", op |-> op, a |-> a, b |-> b,
                       out |-> r.out, printed |-> r.printed,
                       performs |-> r.performs, divides |-> r.divides,
                       history0 |-> history]
           /\ okRecords' = IF ~r.out.raised /\ r.out.val.t # "None"
                           THEN Append(okRecords, Record(a, op, b, r.out.val))
                           ELSE okRecords
           /\ calcDiag' = calcDiag + Len(r.printed)
           /\ calcDivZero' = calcDivZero + (IF op = "divide" /\ b = 0 THEN 1 ELSE 0)
    /\ ncalls' = ncalls + 1
    /\ UNCHANGED precision0

\* a caller runs calc.perform_operation(op, a, b) directly
PerformOperation(op, a, b) ==
    /\ LET r == perform_operation(op, a, b)
       IN  /\ stdout' = stdout \o r.printed
           /\ last' = [kind |-> "perform_operation", op |-> op, a |-> a, b |-> b,
                       out |-> r.out, printed |-> r.printed,
                       performs |-> <<>>, divides |-> r.divides,
                       history0 |-> history]
    /\ ncalls' = ncalls + 1
    /\ UNCHANGED <<precision, history, precision0, okRecords, calcDiag, calcDivZero>>

\* a caller runs calc.divide(a, b) directly
Divide(a, b) ==
    /\ last' = [kind |-> "divide", op |-> "divide", a |-> a, b |-> b,
                out |-> divide(a, b), printed |-> <<>>,
                performs |-> <<>>, divides |-> <<>>, history0 |-> history]
    /\ ncalls' = ncalls + 1
    /\ UNCHANGED <<precision, history, stdout, precision0, okRecords, calcDiag,
                   calcDivZero>>

\* a session: up to MaxCalls calls, in any order, on one Calculator
Next ==
    \/ \E op \in Operations, a \in SeqDividends, b \in SeqDivisors :
         ncalls < MaxCalls /\ Calculate(op, a, b)
    \/ \E op \in Operations, a \in SeqDividends, b \in SeqDivisors :
         ncalls < MaxCalls /\ PerformOperation(op, a, b)
    \/ \E a \in SeqDividends, b \in SeqDivisors :
         ncalls < MaxCalls /\ Divide(a, b)

Spec == Init /\ [][Next]_vars

\* one call, of any method with any operands, on a Calculator with a history
NextCall ==
    \/ \E op \in Operations, a \in Dividends, b \in Divisors :
         ncalls = 0 /\ Calculate(op, a, b)
    \/ \E op \in Operations, a \in Dividends, b \in Divisors :
         ncalls = 0 /\ PerformOperation(op, a, b)
    \/ \E a \in Dividends, b \in Divisors :
         ncalls = 0 /\ Divide(a, b)

SpecCall == InitCall /\ [][NextCall]_vars

\* ------------------------------------------------------------------ properties
Supported == {"add", "subtract", "multiply", "divide"}

\* the latest call was calc.calculate("divide", a, 0)
CalcDivByZero == last.kind = "calculate" /\ last.op = "divide" /\ last.b = 0

\* the latest call was calc.calculate with a supported operation that has a result
CalcDefined ==
    /\ last.kind = "calculate"
    /\ last.op \in Supported
    /\ ~(last.op = "divide" /\ last.b = 0)

\* the unrounded result of a supported operation, b # 0 when dividing
RawOp(op, a, b) ==
    IF op = "add" THEN PyInt(a + b)
    ELSE IF op = "subtract" THEN PyInt(a - b)
    ELSE IF op = "multiply" THEN PyInt(a * b)
    ELSE TrueDiv(a, b)

IsPrefix(s, t) == Len(s) <= Len(t) /\ SubSeq(t, 1, Len(s)) = s

\* the records that would show an absent result
AbsentRecords ==
    {Record(a, op, b, None) : op \in Operations,
                              a \in Dividends \cup SeqDividends,
                              b \in Divisors \cup SeqDivisors}

\* C1: calculate("divide", a, 0) completes normally and returns None to its
\* caller, for every dividend a and every state of the Calculator: no error,
\* neither DivisionByZeroError nor one of the rounding step, leaves calculate.
C1_DivByZeroReturnsSentinel ==
    CalcDivByZero => (~last.out.raised /\ last.out.val = None)

\* C2: calculate("divide", a, 0) leaves history as it found it, however the
\* call ends.
C2_DivByZeroKeepsHistory == CalcDivByZero => history = last.history0

C2_Witness ==
    /\ CalcDivByZero
    /\ last.a = 0 - 10
    /\ Len(last.history0) = 2
    /\ last.out.raised

\* C3: calculate(op, a, b) with add, subtract or multiply, or with divide and
\* b # 0, calls perform_operation once with (op, a, b), raises nothing, returns
\* round(raw_op(a, b), precision) and appends one record to history, "<a> <op>
\* <b> = <r>" with <r> the rounded value returned.
C3_CalculateRoundsAndRecords ==
    CalcDefined =>
        /\ last.performs = <<<<last.op, last.a, last.b>>>>
        /\ ~last.out.raised
        /\ last.out.val = PyRound(RawOp(last.op, last.a, last.b), precision).val
        /\ history = Append(last.history0,
                            Record(last.a, last.op, last.b, last.out.val))

\* 10 / 3 on a Calculator with a history: 3.33, 3.3 or 3.0, never the quotient
C3_Witness ==
    /\ CalcDefined
    /\ last.op = "divide" /\ last.a = 10 /\ last.b = 3
    /\ last.out.val # TrueDiv(10, 3)
    /\ Len(history) = 3

\* C4: perform_operation("divide", a, 0) calls divide(a, 0) once, lets no
\* error reach its caller, prints one diagnostic line and returns None.
C4_PerformOperationCatches ==
    (last.kind = "perform_operation" /\ last.op = "divide" /\ last.b = 0) =>
        /\ last.divides = <<<<last.a, 0>>>>
        /\ ~last.out.raised
        /\ last.out.val = None
        /\ Len(last.printed) = 1
        /\ stdout = last.printed

C4_Witness ==
    /\ last.kind = "perform_operation" /\ last.op = "divide" /\ last.b = 0
    /\ last.a = 10
    /\ stdout = <<"Error: Attempted to divide 10 by zero: Cannot divide 10 by zero">>

\* C5: divide(a, b) raises DivisionByZeroError exactly when b = 0, with the
\* message "Cannot divide <a> by zero"; for b # 0 it returns the unrounded
\* quotient a / b, a float q with q * b = a.
C5_DivideRaisesIffZero ==
    last.kind = "divide" =>
        /\ last.out.raised <=> last.b = 0
        /\ last.b = 0 =>
             /\ last.out.exc = "DivisionByZeroError"
             /\ last.out.msg = "Cannot divide " \o ToString(last.a) \o " by zero"
        /\ last.b # 0 =>
             /\ last.out.val.t = "float"
             /\ last.out.val.num * Abs(last.b) = Abs(last.a) * last.out.val.den
             /\ last.out.val.neg = ((last.a < 0) # (last.b < 0))

\* 10 / -1 is the float -10.0
C5_Witness ==
    /\ last.kind = "divide" /\ last.a = 10 /\ last.b = 0 - 1
    /\ ~last.out.raised
    /\ Str(last.out.val) = "-10.0"

\* C6: history is append-only over any sequence of calculate, perform_operation
\* and divide calls: the history each call found is a prefix of the history it
\* left, and the history is the records of the calculate calls that returned a
\* number, in the order of the calls.
C6_HistoryAppendOnly ==
    /\ IsPrefix(last.history0, history)
    /\ history = okRecords

C6_Witness ==
    /\ Len(history) = 2
    /\ history[1] # history[2]
    /\ last.kind = "calculate"
    /\ last.history0 = <<history[1]>>

\* C7: over any sequence of calculate calls the diagnostic lines printed are as
\* many as the calls with divide and b = 0: each such call prints one line and
\* a call with add, subtract, multiply, or divide with b # 0 prints none.
C7_OneDiagnosticPerDivByZero ==
    /\ calcDiag = calcDivZero
    /\ CalcDivByZero => Len(last.printed) = 1
    /\ CalcDefined => Len(last.printed) = 0

C7_Witness ==
    /\ calcDivZero = 2
    /\ Len(stdout) = 2
    /\ stdout[1] # stdout[2]

\* C8: no call changes precision: after any sequence of calculate,
\* perform_operation and divide calls, returning or raising, precision is the
\* value the Calculator was constructed with.
C8_PrecisionFixed == precision = precision0

C8_Witness ==
    /\ precision = DefaultPrecision
    /\ ncalls = 2
    /\ Len(history) = 1
    /\ last.out.raised

\* C9: perform_operation with a label outside add, subtract, multiply, divide
\* returns None without raising, prints nothing, does not call divide and
\* changes neither history nor precision.
C9_UnknownLabelFallsThrough ==
    (last.kind = "perform_operation" /\ last.op \notin Supported) =>
        /\ ~last.out.raised
        /\ last.out.val = None
        /\ last.printed = <<>>
        /\ stdout = <<>>
        /\ last.divides = <<>>
        /\ history = last.history0
        /\ precision = precision0

C9_Witness ==
    /\ last.kind = "perform_operation" /\ last.op = "modulo"
    /\ last.b = 0
    /\ Len(history) = 1

\* C10: no history entry records an absent result: when perform_operation
\* yields None inside calculate (divide by zero, or an unknown label),
\* calculate appends nothing, so each entry ends in a number and the length of
\* history is the number of calculate calls that returned a number.
C10_NoAbsentRecord ==
    /\ \A i \in 1..Len(history) : history[i] \notin AbsentRecords
    /\ Len(history) = Len(okRecords)
    /\ (last.kind = "calculate" /\ (last.out.raised \/ last.out.val = None))
         => history = last.history0

C10_Witness ==
    /\ last.kind = "calculate" /\ last.op = "modulo"
    /\ Len(history) = 1
    /\ ncalls = 2

====
